---- MODULE Spec2Model ----
(***************************************************************************)
(* A model of VandenStock_DBpedia.py: the command-line DBpedia book        *)
(* lookup.  One run of query_DBpedia is a sequential process; its state is *)
(* the local variables of query_DBpedia and of the functions it calls, the *)
(* lines written to the console, the network requests issued so far and    *)
(* the way the process ended.                                              *)
(*                                                                         *)
(* A Python str is modelled as a sequence of atoms.  An atom is a piece of *)
(* text that the string operations of the program never look inside:       *)
(* "/", "_", " ", the word "resource", a letter of the search term, ...    *)
(* str.replace, str.split, str.strip, str.casefold and urllib.parse.quote  *)
(* are computed on these sequences the way Python computes them on         *)
(* characters.                                                             *)
(***************************************************************************)
EXTENDS Integers, Sequences, FiniteSets, TLC

VARIABLES
    pc,          \* position of the process
    search,      \* query_DBpedia: the raw search string
    bookname,    \* query_DBpedia: clean(search)
    probeIdx,    \* getAPIprefix: index of the next candidate of the for loop
    prefix,      \* query_DBpedia: DBPEDIA_PREFIX
    result,      \* query_DBpedia: the body read from the search request
    books,       \* extract_books: dict_of_books, in insertion order
    choice,      \* extract_books: what input() returned
    title,       \* extract_books: title
    URI_json,    \* extract_books: URI_json, afterwards book_results
    json_dict,   \* extract_metadata: the parsed metadata document
    metadata,    \* query_DBpedia: metadata
    out,         \* lines printed on standard output
    requests,    \* the urlopen calls made so far, each with what came back
    exit         \* how the process ended

vars == <<pc, search, bookname, probeIdx, prefix, result, books, choice,
          title, URI_json, json_dict, metadata, out, requests, exit>>

----------------------------------------------------------------------------
(* Bounds of the model *)

MaxLen == 2          \* length of the search string
MaxEntities == 2     \* results in a search response
MaxChoiceLen == 2    \* length of the line typed at the prompt
MaxObjs == 2         \* value objects in a metadata document

----------------------------------------------------------------------------
(* Strings *)

SeqsUpTo(S, n) == UNION {[1..k -> S] : k \in 0..n}

NoStr == <<>>

\* str.isspace(): every character is whitespace and there is at least one
IsSpace(s) == Len(s) > 0 /\ \A i \in 1..Len(s) : s[i] = " "

RECURSIVE LStrip(_)
LStrip(s) == IF Len(s) > 0 /\ s[1] = " " THEN LStrip(Tail(s)) ELSE s

RECURSIVE RStrip(_)
RStrip(s) ==
    IF Len(s) > 0 /\ s[Len(s)] = " " THEN RStrip(SubSeq(s, 1, Len(s) - 1)) ELSE s

\* str.strip()
Strip(s) == RStrip(LStrip(s))

\* str.casefold() on the letters of the model
Casefold(s) == [i \in 1..Len(s) |-> IF s[i] = "A" THEN "a" ELSE s[i]]

\* urllib.parse.quote(): a space becomes %20, letters are kept
Quote(s) == [i \in 1..Len(s) |-> IF s[i] = " " THEN "%20" ELSE s[i]]

\* str.replace(old, new): every non-overlapping occurrence, left to right
RECURSIVE Replace(_, _, _)
Replace(s, old, new) ==
    IF Len(s) < Len(old) THEN s
    ELSE IF SubSeq(s, 1, Len(old)) = old
         THEN new \o Replace(SubSeq(s, Len(old) + 1, Len(s)), old, new)
         ELSE <<s[1]>> \o Replace(Tail(s), old, new)

\* str.split('/')[-1]: what follows the last "/"
RECURSIVE LastSegment(_)
LastSegment(s) ==
    IF \E i \in 1..Len(s) : s[i] = "/" THEN LastSegment(Tail(s)) ELSE s

----------------------------------------------------------------------------
(* Ways to end *)

Running == [kind |-> "running", arg |-> ""]
Normal == [kind |-> "normal", arg |-> ""]
SystemExit(a) == [kind |-> "SystemExit", arg |-> a]
Uncaught(e) == [kind |-> "uncaught", arg |-> e]

EmptyMsg == "That is an empty string... Try again."
NoAPIMsg == "No functioning DBpedia lookup API found!"
NoBooksMsg == "There are no books found for your search query... Try again."

\* What the interpreter writes on standard error when the process ends:
\* the argument of SystemExit, or the traceback of the uncaught exception.
Stderr == IF exit.kind \in {"SystemExit", "uncaught"} THEN {exit.arg} ELSE {}

Line(k, i, key, text) == [kind |-> k, idx |-> i, key |-> key, text |-> text]

Request(k, u, o) == [kind |-> k, url |-> u, outcome |-> o]

----------------------------------------------------------------------------
(* clean *)

SearchChars == {" ", "A"}
SearchStrings == SeqsUpTo(SearchChars, MaxLen)

\* clean without the isspace() test
ValidInputLengthOnly(s) == Len(s) > 0

ValidInput(s) == Len(s) > 0 /\ ~IsSpace(s)

CleanString(s) == Quote(Casefold(Strip(s)))

Clean ==
    /\ pc = "clean"
    /\ IF ValidInput(search)
       THEN /\ bookname' = CleanString(search)
            /\ pc' = "getAPIprefix"
            /\ exit' = exit
       ELSE /\ bookname' = bookname
            /\ pc' = "exited"
            /\ exit' = SystemExit(EmptyMsg)
    /\ UNCHANGED <<search, probeIdx, prefix, result, books, choice, title,
                   URI_json, json_dict, metadata, out, requests>>

----------------------------------------------------------------------------
(* getAPIprefix *)

prefixes ==
    << "https://lookup.dbpedia.org/api/search/PrefixSearch?QueryString=",
       "http://lookup.dbpedia.org/api/search/PrefixSearch?QueryString=",
       "https://lookup.dbpedia.org/api/prefix?query=",
       "http://lookup.dbpedia.org/api/prefix?query=",
       "http://akswnc7.informatik.uni-leipzig.de/lookup/api/search?query=" >>

\* What urlopen can do: return a response of status 200, return a response of
\* another status (a 2xx that is not 200), or raise HTTPError or URLError.
FetchErrors == {"HTTPError", "URLError"}
ProbeOutcomes == {"200", "non200"} \cup FetchErrors

ProbeStep(o) ==
    /\ pc = "getAPIprefix"
    /\ probeIdx <= Len(prefixes)
    /\ requests' = Append(requests, Request("probe", <<prefixes[probeIdx], "Antwerp">>, o))
    /\ IF o = "200"
       THEN /\ prefix' = prefixes[probeIdx]
            /\ pc' = "search"
            /\ UNCHANGED <<probeIdx, exit>>
       ELSE IF o = "non200"
       THEN /\ probeIdx' = probeIdx + 1
            /\ UNCHANGED <<prefix, pc, exit>>
       ELSE /\ pc' = "exited"
            /\ exit' = Uncaught(o)
            /\ UNCHANGED <<probeIdx, prefix>>
    /\ UNCHANGED <<search, bookname, result, books, choice, title, URI_json,
                   json_dict, metadata, out>>

ProbeExhausted ==
    /\ pc = "getAPIprefix"
    /\ probeIdx > Len(prefixes)
    /\ pc' = "exited"
    /\ exit' = SystemExit(NoAPIMsg)
    /\ UNCHANGED <<search, bookname, probeIdx, prefix, result, books, choice,
                   title, URI_json, json_dict, metadata, out, requests>>

----------------------------------------------------------------------------
(* The search request of query_DBpedia *)

BOOK_IDENTIFIER == "http://dbpedia.org/ontology/Book"
OtherClass == "http://dbpedia.org/ontology/Film"

Labels == {<<"Dune">>, <<"Emma">>}

ResourceURIs ==
    { <<"http://dbpedia.org", "/", "resource", "/", "Dune", "_", "(novel)">>,
      <<"http://dbpedia.org", "/", "resource", "/", "Emma", "_", "(novel)">>,
      <<"http://dbpedia.org", "/", "resource", "/", "Open", "_", "resource", "_", "book">> }

\* One Result element of the search response: its Label, its URI and the URI
\* texts of its Classes/Class children, in document order.
Entities == [label : Labels, uri : ResourceURIs,
             classes : {<<BOOK_IDENTIFIER>>, <<OtherClass>>}]

\* A search response lists a resource once.
Responses ==
    {r \in SeqsUpTo(Entities, MaxEntities) :
        \A i, j \in 1..Len(r) : i # j => r[i].uri # r[j].uri}

NoResult == [xml |-> "none", results |-> <<>>]

SearchURL == <<prefix>> \o bookname

SearchOk ==
    /\ pc = "search"
    /\ requests' = Append(requests, Request("search", SearchURL, "ok"))
    /\ \E r \in Responses : result' = [xml |-> "ok", results |-> r]
    /\ pc' = "extract_books"
    /\ UNCHANGED <<search, bookname, probeIdx, prefix, books, choice, title,
                   URI_json, json_dict, metadata, out, exit>>

\* The body read is not XML: lxml.etree.fromstring raises inside
\* extract_books, and neither except clause of query_DBpedia catches it.
SearchMalformed ==
    /\ pc = "search"
    /\ requests' = Append(requests, Request("search", SearchURL, "XMLSyntaxError"))
    /\ result' = [xml |-> "malformed", results |-> <<>>]
    /\ pc' = "exited"
    /\ exit' = Uncaught("XMLSyntaxError")
    /\ UNCHANGED <<search, bookname, probeIdx, prefix, books, choice, title,
                   URI_json, json_dict, metadata, out>>

\* urlopen raises: the except clause prints the error and exits with it
SearchFail(e) ==
    /\ pc = "search"
    /\ requests' = Append(requests, Request("search", SearchURL, e))
    /\ out' = Append(out, Line("error", 0, "", <<e>>))
    /\ pc' = "exited"
    /\ exit' = SystemExit(e)
    /\ UNCHANGED <<search, bookname, probeIdx, prefix, result, books, choice,
                   title, URI_json, json_dict, metadata>>

----------------------------------------------------------------------------
(* extract_books *)

\* dict[k] = v on a dict kept as the sequence of its items in insertion order
DictSet(d, k, v) ==
    IF \E i \in 1..Len(d) : d[i].key = k
    THEN [i \in 1..Len(d) |-> IF d[i].key = k THEN [key |-> k, val |-> v] ELSE d[i]]
    ELSE Append(d, [key |-> k, val |-> v])

DictGet(d, k) == d[CHOOSE i \in 1..Len(d) : d[i].key = k].val

\* extract_books keeping every typed result, whatever its class
IsBookAnyClass(uriText) == uriText \in {BOOK_IDENTIFIER, OtherClass}

IsBook(uriText) == uriText = BOOK_IDENTIFIER

\* the class URI elements of one Result, in document order
RECURSIVE ScanClasses(_, _, _)
ScanClasses(e, cs, d) ==
    IF cs = <<>> THEN d
    ELSE ScanClasses(e, Tail(cs),
                     IF IsBook(Head(cs)) THEN DictSet(d, e.label, e.uri) ELSE d)

\* for element in tree.iter("URI")
RECURSIVE ScanResults(_, _)
ScanResults(rs, d) ==
    IF rs = <<>> THEN d
    ELSE ScanResults(Tail(rs), ScanClasses(Head(rs), Head(rs).classes, d))

ToJsonURI(resource) == Replace(resource, <<"resource">>, <<"data">>) \o <<".json">>

TitleLines(d) == [i \in 1..Len(d) |-> Line("item", i - 1, "", d[i].key)]

ExtractBooks ==
    /\ pc = "extract_books"
    /\ LET d == ScanResults(result.results, <<>>) IN
       /\ books' = d
       /\ IF Len(d) = 0
          THEN /\ pc' = "exited"
               /\ exit' = SystemExit(NoBooksMsg)
               /\ UNCHANGED <<title, URI_json, out>>
          ELSE IF Len(d) = 1
          THEN /\ title' = d[1].key
               /\ URI_json' = ToJsonURI(d[1].val)
               /\ out' = Append(out, Line("results", 0, "", d[1].key))
               /\ pc' = "extract_metadata"
               /\ exit' = exit
          ELSE /\ out' = out \o <<Line("multiple", 0, "", NoStr)>> \o TitleLines(d)
               /\ pc' = "input"
               /\ UNCHANGED <<title, URI_json, exit>>
    /\ UNCHANGED <<search, bookname, probeIdx, prefix, result, choice, json_dict, metadata,
                   requests>>

ChoiceChars == {"-", "0", "1", "3", "x"}
ChoiceStrings == SeqsUpTo(ChoiceChars, MaxChoiceLen)

Digits == {"0", "1", "3"}
DigitValue(c) == IF c = "0" THEN 0 ELSE IF c = "1" THEN 1 ELSE 3

AllDigits(s) == Len(s) > 0 /\ \A i \in 1..Len(s) : s[i] \in Digits

\* the strings int() accepts: an optional sign, then digits
IsIntLiteral(s) ==
    \/ AllDigits(s)
    \/ Len(s) > 0 /\ s[1] = "-" /\ AllDigits(Tail(s))

RECURSIVE DigitsValue(_)
DigitsValue(s) ==
    IF s = <<>> THEN 0
    ELSE 10 * DigitsValue(SubSeq(s, 1, Len(s) - 1)) + DigitValue(s[Len(s)])

\* int(choice)
IntValue(s) == IF s[1] = "-" THEN 0 - DigitsValue(Tail(s)) ELSE DigitsValue(s)

\* list[k]: the position (from 1) of the element a list of n elements yields
\* for index k, or 0 where Python raises IndexError
ListIndex(n, k) ==
    IF 0 <= k /\ k < n THEN k + 1
    ELSE IF k < 0 /\ 0 - n <= k THEN n + k + 1
    ELSE 0

Choose ==
    /\ pc = "input"
    /\ \E c \in ChoiceStrings :
       /\ choice' = c
       /\ IF ~IsIntLiteral(c)
          THEN /\ pc' = "exited"
               /\ exit' = Uncaught("ValueError")
               /\ UNCHANGED <<title, URI_json, out>>
          ELSE LET p == ListIndex(Len(books), IntValue(c)) IN
               IF p = 0
               THEN /\ pc' = "exited"
                    /\ exit' = Uncaught("IndexError")
                    /\ UNCHANGED <<title, URI_json, out>>
               ELSE /\ title' = books[p].key
                    /\ URI_json' = ToJsonURI(DictGet(books, books[p].key))
                    /\ out' = Append(out, Line("results", 0, "", books[p].key))
                    /\ pc' = "extract_metadata"
                    /\ exit' = exit
    /\ UNCHANGED <<search, bookname, probeIdx, prefix, result, books, json_dict, metadata,
                   requests>>

----------------------------------------------------------------------------
(* extract_metadata *)

AUTHOR_ID == "http://dbpedia.org/ontology/author"
PUBLISHER_ID == "http://dbpedia.org/ontology/publisher"
PUBLICATIONDATE_ID == "http://dbpedia.org/property/published"
PAGES_ID == "http://dbpedia.org/ontology/numberOfPages"
GENRE_ID == "http://dbpedia.org/property/genre"
ABSTRACT_ID == "http://dbpedia.org/ontology/abstract"

Predicates == {AUTHOR_ID, PUBLISHER_ID, PUBLICATIONDATE_ID, PAGES_ID, GENRE_ID,
               ABSTRACT_ID}

NotFound == <<"not found">>
En == <<"en">>

\* Value objects of a metadata document.  Each has a type and a value; a
\* literal of a language also has a lang.
ValueObjects ==
    { [type |-> <<"uri">>,
       value |-> <<"http://dbpedia.org", "/", "resource", "/", "Frank", "_", "Herbert">>],
      [type |-> <<"uri">>,
       value |-> <<"http://dbpedia.org", "/", "resource", "/", "Ace", "_", "Books">>],
      [type |-> <<"literal">>, value |-> <<"Dune is a novel">>, lang |-> <<"en">>],
      [type |-> <<"literal">>, value |-> <<"Dune est un roman">>, lang |-> <<"fr">>],
      [type |-> <<"literal">>, value |-> <<"en">>, lang |-> <<"fr">>] }

\* A metadata document, as the sequence in which the three nested loops of
\* extract_metadata meet its value objects: each with the predicate it is
\* listed under.
Triples == [pred : Predicates, obj : ValueObjects]
Docs == SeqsUpTo(Triples, MaxObjs)

\* The documents the whole run is answered with: an empty one, one with an
\* author and one with an English abstract.
FlowDocs ==
    { <<>>,
      <<[pred |-> AUTHOR_ID,
         obj |-> [type |-> <<"uri">>,
                  value |-> <<"http://dbpedia.org", "/", "resource", "/", "Frank", "_", "Herbert">>]]>>,
      <<[pred |-> ABSTRACT_ID,
         obj |-> [type |-> <<"literal">>, value |-> <<"Dune is a novel">>, lang |-> <<"en">>]]>> }

MetadataKeys ==
    << "AUTHOR", "AUTHOR_RESOURCE", "PUBLISHER", "PUBLISHER_RESOURCE",
       "PUBLICATION DATE", "NUMBER OF PAGES", "GENRE", "ABSTRACT" >>

KeySet == {MetadataKeys[i] : i \in 1..Len(MetadataKeys)}

NoMetadata == [k \in KeySet |-> NoStr]
InitialAnswers == [k \in KeySet |-> NotFound]

\* URI.split('/')[-1].replace('_', ' ')
Label(uri) == Replace(LastSegment(uri), <<"_">>, <<" ">>)

\* for k, v in dic.items(): if dic[k] == 'en'
IsEnglish(dic) == \E k \in DOMAIN dic : dic[k] = En

\* the body of the innermost loops, for one value object
Visit(m, t) ==
    IF t.pred = AUTHOR_ID
    THEN [m EXCEPT !["AUTHOR_RESOURCE"] = t.obj.value, !["AUTHOR"] = Label(t.obj.value)]
    ELSE IF t.pred = PUBLISHER_ID
    THEN [m EXCEPT !["PUBLISHER_RESOURCE"] = t.obj.value,
                   !["PUBLISHER"] = Label(t.obj.value)]
    ELSE IF t.pred = PUBLICATIONDATE_ID
    THEN [m EXCEPT !["PUBLICATION DATE"] = t.obj.value]
    ELSE IF t.pred = PAGES_ID
    THEN [m EXCEPT !["NUMBER OF PAGES"] = t.obj.value]
    ELSE IF t.pred = GENRE_ID
    THEN [m EXCEPT !["GENRE"] = Label(t.obj.value)]
    ELSE IF t.pred = ABSTRACT_ID /\ IsEnglish(t.obj)
    THEN [m EXCEPT !["ABSTRACT"] = t.obj.value]
    ELSE m

\* extract_metadata keeping the first value object of a predicate, not the last
RECURSIVE VisitAllFirstWins(_, _)
VisitAllFirstWins(m, doc) ==
    IF doc = <<>> THEN m ELSE Visit(VisitAllFirstWins(m, Tail(doc)), Head(doc))

RECURSIVE VisitAll(_, _)
VisitAll(m, doc) ==
    IF doc = <<>> THEN m ELSE VisitAll(Visit(m, Head(doc)), Tail(doc))

ExtractMetadata(doc) == VisitAll(InitialAnswers, doc)

FetchMetadataOk(documents) ==
    /\ pc = "extract_metadata"
    /\ requests' = Append(requests, Request("meta", URI_json, "ok"))
    /\ \E doc \in documents :
          /\ json_dict' = doc
          /\ metadata' = ExtractMetadata(doc)
    /\ pc' = "display_results"
    /\ UNCHANGED <<search, bookname, probeIdx, prefix, result, books, choice,
                   title, URI_json, out, exit>>

\* The body read is not JSON: json.loads raises, and neither except clause
\* of extract_metadata or query_DBpedia catches it.
FetchMetadataMalformed ==
    /\ pc = "extract_metadata"
    /\ requests' = Append(requests, Request("meta", URI_json, "JSONDecodeError"))
    /\ pc' = "exited"
    /\ exit' = Uncaught("JSONDecodeError")
    /\ UNCHANGED <<search, bookname, probeIdx, prefix, result, books, choice,
                   title, URI_json, json_dict, metadata, out>>

\* extract_metadata with an except clause that prints the error but does not
\* exit, so that the answers, all still 'not found', are returned
FetchMetadataFailNoExit(e) ==
    /\ pc = "extract_metadata"
    /\ requests' = Append(requests, Request("meta", URI_json, e))
    /\ out' = Append(out, Line("error", 0, "", <<e>>))
    /\ metadata' = InitialAnswers
    /\ pc' = "display_results"
    /\ UNCHANGED <<search, bookname, probeIdx, prefix, result, books, choice,
                   title, URI_json, json_dict, exit>>

\* urlopen raises: the except clause prints the error and exits with it
FetchMetadataFail(e) ==
    /\ pc = "extract_metadata"
    /\ requests' = Append(requests, Request("meta", URI_json, e))
    /\ out' = Append(out, Line("error", 0, "", <<e>>))
    /\ pc' = "exited"
    /\ exit' = SystemExit(e)
    /\ UNCHANGED <<search, bookname, probeIdx, prefix, result, books, choice,
                   title, URI_json, json_dict, metadata>>

----------------------------------------------------------------------------
(* display_results *)

\* key.endswith('RESOURCE'), on the keys of the metadata dict
EndsWithResource(key) == key \in {"AUTHOR_RESOURCE", "PUBLISHER_RESOURCE"}

DisplayLine(key, value) ==
    IF EndsWithResource(key) /\ value # NotFound
    THEN Line("more info", 0, "", value)
    ELSE IF key = "ABSTRACT"
    THEN Line("abstract", 0, key, value)
    ELSE Line("field", 0, key, value)

Rendered(m) == [i \in 1..Len(MetadataKeys) |-> DisplayLine(MetadataKeys[i], m[MetadataKeys[i]])]

DisplayResults ==
    /\ pc = "display_results"
    /\ out' = out \o Rendered(metadata)
    /\ pc' = "done"
    /\ exit' = Normal
    /\ UNCHANGED <<search, bookname, probeIdx, prefix, result, books, choice,
                   title, URI_json, json_dict, metadata, requests>>

----------------------------------------------------------------------------
(* The whole run: query_DBpedia(search) *)

Init ==
    /\ pc = "clean"
    /\ search \in SearchStrings
    /\ bookname = NoStr
    /\ probeIdx = 1
    /\ prefix = ""
    /\ result = NoResult
    /\ books = <<>>
    /\ choice = NoStr
    /\ title = NoStr
    /\ URI_json = NoStr
    /\ json_dict = <<>>
    /\ metadata = NoMetadata
    /\ out = <<>>
    /\ requests = <<>>
    /\ exit = Running

Next ==
    \/ Clean
    \/ \E o \in ProbeOutcomes : ProbeStep(o)
    \/ ProbeExhausted
    \/ SearchOk
    \/ SearchMalformed
    \/ \E e \in FetchErrors : SearchFail(e)
    \/ ExtractBooks
    \/ Choose
    \/ FetchMetadataOk(FlowDocs)
    \/ FetchMetadataMalformed
    \/ \E e \in FetchErrors : FetchMetadataFail(e)
    \/ DisplayResults

Spec == Init /\ [][Next]_vars

----------------------------------------------------------------------------
(* extract_metadata and display_results on their own: the run has found    *)
(* one book and calls extract_metadata; the document is any of Docs.       *)

InitMeta ==
    /\ pc = "extract_metadata"
    /\ search = <<"A">>
    /\ bookname = CleanString(search)
    /\ probeIdx = 1
    /\ prefix = prefixes[1]
    /\ \E e \in Entities :
          /\ e.classes = <<BOOK_IDENTIFIER>>
          /\ result = [xml |-> "ok", results |-> <<e>>]
          /\ books = ScanResults(<<e>>, <<>>)
          /\ title = e.label
          /\ URI_json = ToJsonURI(e.uri)
          /\ out = <<Line("results", 0, "", e.label)>>
    /\ choice = NoStr
    /\ json_dict = <<>>
    /\ metadata = NoMetadata
    /\ requests = << Request("probe", <<prefixes[1], "Antwerp">>, "200"),
                     Request("search", <<prefixes[1]>> \o bookname, "ok") >>
    /\ exit = Running

NextMeta ==
    \/ FetchMetadataOk(Docs)
    \/ DisplayResults

SpecMeta == InitMeta /\ [][NextMeta]_vars

----------------------------------------------------------------------------
(* Vocabulary of the properties *)

\* empty, or whitespace only
Blank(s) == \A i \in 1..Len(s) : s[i] = " "

RequestsOf(k) == SelectSeq(requests, LAMBDA r : r.kind = k)

LinesOf(k) == SelectSeq(out, LAMBDA l : l.kind = k)

\* the results of a response that are typed Book, in response order
BookEntities(rs) ==
    SelectSeq(rs, LAMBDA e : \E i \in 1..Len(e.classes) : e.classes[i] = BOOK_IDENTIFIER)

Prompted == LinesOf("multiple") # <<>>
Answered == Prompted /\ pc # "input"

MetadataBlockPrinted ==
    \E i \in 1..Len(out) : out[i].kind \in {"field", "abstract", "more info"}

Has(doc, p) == \E i \in 1..Len(doc) : doc[i].pred = p

LastOf(doc, p) ==
    doc[CHOOSE i \in 1..Len(doc) :
            /\ doc[i].pred = p
            /\ \A j \in (i + 1)..Len(doc) : doc[j].pred # p].obj

\* the final path segment of an identifier, underscores shown as spaces
FinalSegmentSpaced(v) ==
    LET slashes == {i \in 1..Len(v) : v[i] = "/"}
        k == IF slashes = {} THEN 0
             ELSE CHOOSE i \in slashes : \A j \in slashes : j <= i
    IN  [i \in 1..(Len(v) - k) |-> IF v[k + i] = "_" THEN " " ELSE v[k + i]]

\* an identifier with only its "resource" path segment replaced, plus ".json"
IsPathSegment(u, i) == 1 < i /\ i < Len(u) /\ u[i - 1] = "/" /\ u[i + 1] = "/"

DocumentAddress(u) ==
    [i \in 1..Len(u) |-> IF u[i] = "resource" /\ IsPathSegment(u, i) THEN "data" ELSE u[i]]
        \o <<".json">>

----------------------------------------------------------------------------
(* Properties *)

\* C1: an empty or whitespace-only search string ends the run inside clean()
\* with the empty-string message, and no network request is ever issued.
C1_BlankInputExitsBeforeNetwork ==
    (Blank(search) /\ pc # "clean") =>
        /\ pc = "exited"
        /\ exit = SystemExit(EmptyMsg)
        /\ requests = <<>>

C1_Witness ==
    /\ pc = "exited"
    /\ search = <<" ", " ">>
    /\ exit = SystemExit(EmptyMsg)

\* C2: once the prober is through, either it has probed the candidates in list
\* order up to the first one that answered 200 and returned that one, or it
\* has probed all of them, none answered 200, and the run ended with the
\* "No functioning DBpedia lookup API found!" message.
C2_ProberReturnsFirstWorking ==
    (pc \notin {"clean", "getAPIprefix"} /\ exit # SystemExit(EmptyMsg)) =>
        LET P == RequestsOf("probe") IN
        /\ Len(P) <= Len(prefixes)
        /\ \A j \in 1..Len(P) : P[j].url = <<prefixes[j], "Antwerp">>
        /\ \/ /\ Len(P) > 0
              /\ P[Len(P)].outcome = "200"
              /\ \A j \in 1..(Len(P) - 1) : P[j].outcome # "200"
              /\ prefix = prefixes[Len(P)]
           \/ /\ Len(P) = Len(prefixes)
              /\ \A j \in 1..Len(P) : P[j].outcome # "200"
              /\ exit = SystemExit(NoAPIMsg)

\* C3: for a response with N > 1 results typed Book, all N titles are printed
\* in response order, and an answer k in 0..N-1 selects the k-th of them: the
\* title and the metadata address are those of the k-th Book result.
C3_ChoiceSelectsKthListed ==
    LET B == BookEntities(result.results)
        N == Len(B)
    IN  (result.xml = "ok" /\ N > 1 /\ pc # "extract_books") =>
            /\ LinesOf("item") = [i \in 1..N |-> Line("item", i - 1, "", B[i].label)]
            /\ (Answered /\ IsIntLiteral(choice) /\ IntValue(choice) \in 0..(N - 1)) =>
                   /\ title = B[IntValue(choice) + 1].label
                   /\ URI_json = ToJsonURI(B[IntValue(choice) + 1].uri)

\* C4: after display_results, a predicate that is absent from the document is
\* shown as "not found", and no line at all is printed for the resource field
\* of an absent author or publisher.
C4_AbsentPredicateRendering ==
    pc = "done" =>
        LET shown(k) == {out[i].text : i \in {j \in 1..Len(out) : out[j].key = k}}
            content(p) == IF p = AUTHOR_ID THEN "AUTHOR"
                          ELSE IF p = PUBLISHER_ID THEN "PUBLISHER"
                          ELSE IF p = PUBLICATIONDATE_ID THEN "PUBLICATION DATE"
                          ELSE IF p = PAGES_ID THEN "NUMBER OF PAGES"
                          ELSE IF p = GENRE_ID THEN "GENRE"
                          ELSE "ABSTRACT"
        IN  /\ \A p \in Predicates :
                   ~Has(json_dict, p) => shown(content(p)) = {NotFound}
            /\ ~Has(json_dict, AUTHOR_ID) => shown("AUTHOR_RESOURCE") = {}
            /\ ~Has(json_dict, PUBLISHER_ID) => shown("PUBLISHER_RESOURCE") = {}
            /\ Len(LinesOf("more info")) <=
                   Cardinality({p \in {AUTHOR_ID, PUBLISHER_ID} : Has(json_dict, p)})

\* C5: a response with no result typed Book ends the run with the "no books
\* found" message: nothing is listed, the user is not prompted and no
\* metadata request is issued.
C5_NoBooksExits ==
    (result.xml = "ok" /\ BookEntities(result.results) = <<>> /\ pc # "extract_books") =>
        /\ pc = "exited"
        /\ exit = SystemExit(NoBooksMsg)
        /\ ~Prompted
        /\ LinesOf("item") = <<>>
        /\ choice = NoStr
        /\ RequestsOf("meta") = <<>>

C5_Witness ==
    /\ pc = "exited"
    /\ exit = SystemExit(NoBooksMsg)
    /\ Len(result.results) > 0

\* C6: an answer to the prompt that is not a number, or is an integer outside
\* 0..N-1 (negative ones included), ends the run with a parse or index
\* failure, and no metadata request is issued.
C6_InvalidChoiceIsFatal ==
    (Answered /\ (~IsIntLiteral(choice) \/ IntValue(choice) \notin 0..(Len(books) - 1))) =>
        /\ pc = "exited"
        /\ exit \in {Uncaught("ValueError"), Uncaught("IndexError")}
        /\ RequestsOf("meta") = <<>>

\* C7: the extracted abstract is the value of a value object of the abstract
\* predicate whose lang is "en"; if no such object exists it is "not found".
C7_AbstractIsEnglish ==
    pc \in {"display_results", "done"} =>
        LET english == {i \in 1..Len(json_dict) :
                           /\ json_dict[i].pred = ABSTRACT_ID
                           /\ "lang" \in DOMAIN json_dict[i].obj
                           /\ json_dict[i].obj.lang = En}
        IN  IF english = {}
            THEN metadata["ABSTRACT"] = NotFound
            ELSE \E i \in english : metadata["ABSTRACT"] = json_dict[i].obj.value

\* C8: the metadata address is the chosen resource identifier with only its
\* "resource" path segment replaced by "data", and ".json" appended.
C8_AddressReplacesOnlyPathSegment ==
    URI_json # NoStr => URI_json = DocumentAddress(DictGet(books, title))

\* C9: a failed search or metadata fetch (urlopen raising, or a body that
\* does not parse) ends the run with that error: the error is written out,
\* the process ends carrying it, and no metadata block is printed.
C9_FetchFailureIsFatal ==
    \A i \in 1..Len(requests) :
        (requests[i].kind \in {"search", "meta"} /\ requests[i].outcome # "ok") =>
            /\ pc = "exited"
            /\ exit.arg = requests[i].outcome
            /\ requests[i].outcome \in Stderr
            /\ requests[i].outcome \in FetchErrors =>
                   /\ exit.kind = "SystemExit"
                   /\ out # <<>>
                   /\ out[Len(out)] = Line("error", 0, "", <<requests[i].outcome>>)
            /\ ~MetadataBlockPrinted
            /\ i = Len(requests)

C9_Witness ==
    /\ pc = "exited"
    /\ RequestsOf("meta") # <<>>
    /\ requests[Len(requests)].kind = "meta"
    /\ requests[Len(requests)].outcome = "HTTPError"
    /\ Prompted

\* C10: for author, publisher, publication date, page count and genre, the
\* answer comes from the last value object of the predicate in document
\* order; the author and publisher labels and identifiers come from that same
\* object, the label being the identifier's final path segment with
\* underscores replaced by spaces.
C10_LastValueWins ==
    pc \in {"display_results", "done"} =>
        /\ Has(json_dict, AUTHOR_ID) =>
               /\ metadata["AUTHOR_RESOURCE"] = LastOf(json_dict, AUTHOR_ID).value
               /\ metadata["AUTHOR"] = FinalSegmentSpaced(LastOf(json_dict, AUTHOR_ID).value)
        /\ Has(json_dict, PUBLISHER_ID) =>
               /\ metadata["PUBLISHER_RESOURCE"] = LastOf(json_dict, PUBLISHER_ID).value
               /\ metadata["PUBLISHER"] = FinalSegmentSpaced(LastOf(json_dict, PUBLISHER_ID).value)
        /\ Has(json_dict, PUBLICATIONDATE_ID) =>
               metadata["PUBLICATION DATE"] = LastOf(json_dict, PUBLICATIONDATE_ID).value
        /\ Has(json_dict, PAGES_ID) =>
               metadata["NUMBER OF PAGES"] = LastOf(json_dict, PAGES_ID).value
        /\ Has(json_dict, GENRE_ID) =>
               metadata["GENRE"] = FinalSegmentSpaced(LastOf(json_dict, GENRE_ID).value)

C10_Witness ==
    /\ pc = "done"
    /\ Len(json_dict) = 2
    /\ json_dict[1].pred = AUTHOR_ID
    /\ json_dict[2].pred = AUTHOR_ID
    /\ json_dict[1].obj.value # json_dict[2].obj.value
    /\ metadata["AUTHOR"] = <<"Ace", " ", "Books">>

====
